---- MODULE Spec2Model ----
(***************************************************************************)
(* Model of Triangle.cpp: a controllable triangle with a sinusoidal jump,  *)
(* a static square and an AABB collision test that recolours the triangle. *)
(*                                                                         *)
(* Lengths are fixed-point hundredths (0.01f = 1, 0.5f = 50, -1.0f = -100).*)
(* Clock values are ticks of a quarter second (jumpDuration 1.0f = 4).     *)
(* Colour channels are tenths (0.4f = 4, 1.0f = 10).                       *)
(***************************************************************************)
EXTENDS Integers, Sequences, FiniteSets

VARIABLES
    pc,                 \* position of main(): which statement block runs next
    exitStatus,         \* << >> while main() runs, << status >> once it has returned
    loopEntered,        \* TRUE once the body of the render loop has started at least once
    errLog,             \* the failures reported on std::cerr so far
    windowShouldClose,  \* the GLFW close flag of the window
    keyEscape, keyLeft, keyRight, keySpace,   \* GLFW cached key states (PRESS = TRUE)
    translationX, translationY,
    squareTranslationX, squareTranslationY,
    isJumping, isFalling, jumpHeight, jumpStartTime,
    deltaTime, lastFrame, currentFrame,
    isColliding, triangleColor, transform,
    boxA, boxB,         \* the arguments (x, y, width, height) of the collision functions
    direction           \* the result of checkCollisionDirection

vars == << pc, exitStatus, loopEntered, errLog, windowShouldClose,
           keyEscape, keyLeft, keyRight, keySpace,
           translationX, translationY, squareTranslationX, squareTranslationY,
           isJumping, isFalling, jumpHeight, jumpStartTime,
           deltaTime, lastFrame, currentFrame,
           isColliding, triangleColor, transform, boxA, boxB, direction >>

keys == << keyEscape, keyLeft, keyRight, keySpace >>
position == << translationX, translationY, squareTranslationX, squareTranslationY >>
jumpState == << isJumping, isFalling, jumpHeight, jumpStartTime >>
clock == << deltaTime, lastFrame, currentFrame >>
output == << isColliding, triangleColor, transform, boxA, boxB >>
startup == << exitStatus, loopEntered, errLog >>

(***************************************************************************)
(* Bounds of the exploration.                                              *)
(***************************************************************************)
MaxTime == 5        \* largest clock value sampled
XLeft == 2          \* how far left of its start the triangle is driven
XRight == 28        \* how far right of its start the triangle is driven
MaxOffset == 120    \* largest initial offset of the fall sequence
MaxCoord == 3       \* box corners range over 0..MaxCoord
MaxSize == 2        \* box widths and heights range over 0..MaxSize

(***************************************************************************)
(* Program constants.                                                      *)
(***************************************************************************)
MoveStep == 1       \* 0.01f
JumpSpeed == 10     \* jumpSpeed = 0.1f
JumpDuration == 4   \* jumpDuration = 1.0f
Amplitude == 50     \* the factor 0.5f of the half-sine
BoxSize == 50       \* the 0.5f width and height of both boxes
HalfSquare == 25    \* the 0.25f subtracted from the square's position
StartX == -100      \* translationX = -1.0f
StartY == -75       \* translationY = -0.75f
SquareX == 0        \* squareTranslationX = 0.0f
SquareY == -50      \* squareTranslationY = -0.5f

NotReturned == << >>
Returned(status) == << status >>

\* What the three initialization steps and the shader builder report.
InitFailures == { "glfw", "window", "glew" }
ShaderFailures == { "compile", "link" }

Green == << 4, 8, 6, 10 >>
Red == << 10, 0, 0, 10 >>
NoColor == << >>

(***************************************************************************)
(* Pure functions.                                                         *)
(***************************************************************************)
identityMatrix == [ i \in 1..16 |-> IF (i - 1) % 5 = 0 THEN 1 ELSE 0 ]

createTranslationMatrix(x, y) ==
    [ identityMatrix EXCEPT ![4] = x, ![8] = y ]

\* Mutant: touching edges no longer count as a collision.
checkCollisionStrict(x1, y1, width1, height1, x2, y2, width2, height2) ==
    ~ ( \/ x1 + width1 <= x2
        \/ x1 >= x2 + width2
        \/ y1 + height1 <= y2
        \/ y1 >= y2 + height2 )

checkCollision(x1, y1, width1, height1, x2, y2, width2, height2) ==
    ~ ( \/ x1 + width1 < x2
        \/ x1 > x2 + width2
        \/ y1 + height1 < y2
        \/ y1 > y2 + height2 )

checkCollisionDirection(x1, y1, width1, height1, x2, y2, width2, height2) ==
    IF x1 + width1 > x2 /\ x1 < x2 + width2 /\ y1 + height1 > y2 /\ y1 < y2 + height2
    THEN IF (x1 + width1 > x2 /\ x1 < x2) /\ (y1 + height1 > y2 /\ y1 < y2 + height2)
         THEN 1
         ELSE IF (x1 < x2 + width2 /\ x1 + width1 > x2 + width2)
                 /\ (y1 + height1 > y2 /\ y1 < y2 + height2)
         THEN 2
         ELSE IF (y1 + height1 > y2 /\ y1 < y2)
                 /\ (x1 + width1 > x2 /\ x1 < x2 + width2)
         THEN 3
         ELSE IF (y1 < y2 + height2 /\ y1 + height1 > y2 + height2)
                 /\ (x1 + width1 > x2 /\ x1 < x2 + width2)
         THEN 4
         ELSE 0
    ELSE 0

\* sinf(jumpProgress * M_PI) * 0.5f, for jumpProgress = p / JumpDuration, by
\* Bhaskara's rational approximation of the sine (exact at 0, 1/2 and 1,
\* negative beyond 1 like the sine itself), truncated to hundredths.
SineOffset(p) ==
    (Amplitude * 16 * p * (JumpDuration - p))
        \div (5 * JumpDuration * JumpDuration - 4 * p * (JumpDuration - p))

\* jumpProgress = (currentFrame - jumpStartTime) / jumpDuration, in units of
\* 1/JumpDuration; the value 1.0f is JumpDuration.
jumpProgress(now, start) == now - start

triangleBox == << translationX, translationY + jumpHeight, BoxSize, BoxSize >>
squareBox == << squareTranslationX - HalfSquare, squareTranslationY - HalfSquare,
                BoxSize, BoxSize >>

(***************************************************************************)
(* Initial state: main() entered, locals at their declared values.         *)
(***************************************************************************)
Init ==
    /\ pc = "glfwInit"
    /\ exitStatus = NotReturned
    /\ loopEntered = FALSE
    /\ errLog = {}
    /\ windowShouldClose = FALSE
    /\ keyEscape = FALSE /\ keyLeft = FALSE /\ keyRight = FALSE /\ keySpace = FALSE
    /\ translationX = StartX
    /\ translationY = StartY
    /\ squareTranslationX = SquareX
    /\ squareTranslationY = SquareY
    /\ isJumping = FALSE
    /\ isFalling = FALSE
    /\ jumpHeight = 0
    /\ jumpStartTime = 0
    /\ deltaTime = 0
    /\ lastFrame = 0
    /\ currentFrame = 0
    /\ isColliding = FALSE
    /\ triangleColor = NoColor
    /\ transform = identityMatrix
    /\ boxA = << 0, 0, 0, 0 >>
    /\ boxB = << 0, 0, 0, 0 >>
    /\ direction = 0

(***************************************************************************)
(* Initialization steps of main().                                         *)
(***************************************************************************)
GlfwInit ==
    /\ pc = "glfwInit"
    /\ \E ok \in BOOLEAN :
          IF ok THEN /\ pc' = "createWindow"
                     /\ exitStatus' = exitStatus
                     /\ errLog' = errLog
                ELSE /\ errLog' = errLog \cup { "glfw" }
                     /\ pc' = "done"
                     /\ exitStatus' = Returned(-1)
    /\ UNCHANGED << loopEntered, windowShouldClose, keys, position,
                    jumpState, clock, output, direction >>

CreateWindow ==
    /\ pc = "createWindow"
    /\ \E ok \in BOOLEAN :
          IF ok THEN /\ pc' = "glewInit"
                     /\ exitStatus' = exitStatus
                     /\ errLog' = errLog
                ELSE /\ errLog' = errLog \cup { "window" }
                     /\ pc' = "done"
                     /\ exitStatus' = Returned(-1)
    /\ UNCHANGED << loopEntered, windowShouldClose, keys, position,
                    jumpState, clock, output, direction >>

GlewInit ==
    /\ pc = "glewInit"
    /\ \E ok \in BOOLEAN :
          IF ok THEN /\ pc' = "createShaderProgram"
                     /\ exitStatus' = exitStatus
                     /\ errLog' = errLog
                ELSE /\ errLog' = errLog \cup { "glew" }
                     /\ pc' = "done"
                     /\ exitStatus' = Returned(-1)
    /\ UNCHANGED << loopEntered, windowShouldClose, keys, position,
                    jumpState, clock, output, direction >>

\* Mutant: a shader compile or link failure ends the program with status -1.
CreateShaderProgramFatal ==
    /\ pc = "createShaderProgram"
    /\ \E failed \in SUBSET ShaderFailures :
          /\ errLog' = errLog \cup failed
          /\ IF failed = {} THEN pc' = "loop" /\ exitStatus' = exitStatus
                            ELSE pc' = "done" /\ exitStatus' = Returned(-1)
    /\ UNCHANGED << loopEntered, windowShouldClose, keys, position,
                    jumpState, clock, output, direction >>

\* Buffers are uploaded, the shaders compiled and linked (failure is only
\* logged), and the locals of the loop are declared.
CreateShaderProgram ==
    /\ pc = "createShaderProgram"
    /\ \E failed \in SUBSET ShaderFailures : errLog' = errLog \cup failed
    /\ pc' = "loop"
    /\ UNCHANGED << exitStatus, loopEntered, windowShouldClose, keys, position,
                    jumpState, clock, output, direction >>

(***************************************************************************)
(* The render loop.                                                        *)
(***************************************************************************)
\* while (!glfwWindowShouldClose(window)) fails: glfwTerminate(); return 0;
LoopExit ==
    /\ pc = "loop"
    /\ windowShouldClose
    /\ pc' = "done"
    /\ exitStatus' = Returned(0)
    /\ UNCHANGED << loopEntered, errLog, windowShouldClose, keys, position,
                    jumpState, clock, output, direction >>

\* Mutant: a colliding triangle is stopped.
MovedXBlocked ==
    IF isColliding
    THEN translationX
    ELSE LET afterLeft == IF keyLeft THEN translationX - MoveStep ELSE translationX
         IN  IF keyRight THEN afterLeft + MoveStep ELSE afterLeft

\* Control triangle movement: translationX after the Left and Right tests.
MovedX ==
    LET afterLeft == IF keyLeft THEN translationX - MoveStep ELSE translationX
    IN  IF keyRight THEN afterLeft + MoveStep ELSE afterLeft

\* deltaTime, the Escape key and the Left/Right movement.
FrameBegin ==
    /\ pc = "loop"
    /\ ~windowShouldClose
    /\ loopEntered' = TRUE
    /\ \E now \in lastFrame..MaxTime :
          /\ currentFrame' = now
          /\ deltaTime' = now - lastFrame
          /\ lastFrame' = now
    /\ windowShouldClose' = IF keyEscape THEN TRUE ELSE windowShouldClose
    /\ translationX' = MovedX
    /\ pc' = "space"
    /\ UNCHANGED << exitStatus, errLog, keys, translationY, squareTranslationX,
                    squareTranslationY, jumpState, output, direction >>

\* Mutant: Space restarts a jump that is already running.
SpaceBodyRestarts ==
    IF keySpace
    THEN /\ isJumping' = TRUE
         /\ jumpStartTime' = currentFrame
         /\ isFalling' = FALSE
    ELSE UNCHANGED << isJumping, jumpStartTime, isFalling >>

\* Start jump when space is pressed: the effect on the jump state.
SpaceBody ==
    IF keySpace /\ ~isJumping
    THEN /\ isJumping' = TRUE
         /\ jumpStartTime' = currentFrame
         /\ isFalling' = FALSE
    ELSE UNCHANGED << isJumping, jumpStartTime, isFalling >>

SpacePress ==
    /\ pc = "space"
    /\ SpaceBody
    /\ pc' = "jump"
    /\ UNCHANGED << startup, windowShouldClose, keys, position, jumpHeight,
                    clock, output, direction >>

\* Mutant: the end of the jump sets isFalling but leaves isJumping set.
JumpBodyKeepsJumping ==
    IF isJumping
    THEN IF jumpProgress(currentFrame, jumpStartTime) < JumpDuration
         THEN /\ jumpHeight' = SineOffset(jumpProgress(currentFrame, jumpStartTime))
              /\ UNCHANGED << isJumping, isFalling >>
         ELSE /\ jumpHeight' = 0
              /\ isJumping' = isJumping
              /\ isFalling' = TRUE
    ELSE UNCHANGED << jumpHeight, isJumping, isFalling >>

\* Mutant: the half-sine is followed past progress 1.
JumpBodyNoEnd ==
    IF isJumping
    THEN /\ jumpHeight' = SineOffset(jumpProgress(currentFrame, jumpStartTime))
         /\ UNCHANGED << isJumping, isFalling >>
    ELSE UNCHANGED << jumpHeight, isJumping, isFalling >>

\* Mutant: the end of the jump keeps the last offset for the fall to bring down.
JumpBodyKeepsHeight ==
    IF isJumping
    THEN IF jumpProgress(currentFrame, jumpStartTime) < JumpDuration
         THEN /\ jumpHeight' = SineOffset(jumpProgress(currentFrame, jumpStartTime))
              /\ UNCHANGED << isJumping, isFalling >>
         ELSE /\ jumpHeight' = jumpHeight
              /\ isJumping' = FALSE
              /\ isFalling' = TRUE
    ELSE UNCHANGED << jumpHeight, isJumping, isFalling >>

\* Handle jumping logic: the effect on (jumpHeight, isJumping, isFalling).
JumpBody ==
    IF isJumping
    THEN IF jumpProgress(currentFrame, jumpStartTime) < JumpDuration
         THEN /\ jumpHeight' = SineOffset(jumpProgress(currentFrame, jumpStartTime))
              /\ UNCHANGED << isJumping, isFalling >>
         ELSE /\ jumpHeight' = 0
              /\ isJumping' = FALSE
              /\ isFalling' = TRUE
    ELSE UNCHANGED << jumpHeight, isJumping, isFalling >>

JumpStep ==
    /\ pc = "jump"
    /\ JumpBody
    /\ pc' = "fall"
    /\ UNCHANGED << startup, windowShouldClose, keys, position, jumpStartTime,
                    clock, output, direction >>

\* Mutant: landing is detected only below the ground.
FallBodyLateLanding ==
    IF isFalling
    THEN LET h == jumpHeight - JumpSpeed
         IN  IF h < 0
             THEN jumpHeight' = 0 /\ isFalling' = FALSE
             ELSE jumpHeight' = h /\ isFalling' = isFalling
    ELSE UNCHANGED << jumpHeight, isFalling >>

\* Handle falling logic: the effect on (jumpHeight, isFalling).
FallBody ==
    IF isFalling
    THEN LET h == jumpHeight - JumpSpeed
         IN  IF h <= 0
             THEN jumpHeight' = 0 /\ isFalling' = FALSE
             ELSE jumpHeight' = h /\ isFalling' = isFalling
    ELSE UNCHANGED << jumpHeight, isFalling >>

FallStep ==
    /\ pc = "fall"
    /\ FallBody
    /\ pc' = "render"
    /\ UNCHANGED << startup, windowShouldClose, keys, position, isJumping,
                    jumpStartTime, clock, output, direction >>

\* Mutant: the colour array outlives the frame, so red is never reset.
EmittedColorSticky(colliding) ==
    IF colliding \/ triangleColor = Red THEN Red ELSE Green

\* Set the triangle's color based on the collision.
EmittedColor(colliding) == IF colliding THEN Red ELSE Green

\* Collision test, colour and transform uniforms, draw calls, buffer swap and
\* glfwPollEvents, which refreshes the key states and may set the close flag.
\* The keys delivered keep the triangle inside the explored strip.
Render ==
    /\ pc = "render"
    /\ boxA' = triangleBox
    /\ boxB' = squareBox
    /\ isColliding' = checkCollision(triangleBox[1], triangleBox[2], triangleBox[3],
                                     triangleBox[4], squareBox[1], squareBox[2],
                                     squareBox[3], squareBox[4])
    /\ triangleColor' = EmittedColor(isColliding')
    /\ transform' = createTranslationMatrix(translationX, translationY + jumpHeight)
    /\ keyEscape' \in BOOLEAN
    /\ keyLeft' \in BOOLEAN
    /\ keyRight' \in BOOLEAN
    /\ keySpace' \in BOOLEAN
    /\ (keyLeft' /\ ~keyRight') => translationX > StartX - XLeft
    /\ (keyRight' /\ ~keyLeft') => translationX < StartX + XRight
    /\ windowShouldClose' \in { windowShouldClose, TRUE }
    /\ pc' = "loop"
    /\ UNCHANGED << startup, position, jumpState, clock, direction >>

Next ==
    \/ GlfwInit
    \/ CreateWindow
    \/ GlewInit
    \/ CreateShaderProgram
    \/ LoopExit
    \/ FrameBegin
    \/ SpacePress
    \/ JumpStep
    \/ FallStep
    \/ Render

Spec == Init /\ [][Next]_vars

(***************************************************************************)
(* The collision functions on their own: every pair of boxes with corners  *)
(* in 0..MaxCoord and sizes in 0..MaxSize is passed to both functions.     *)
(***************************************************************************)
Boxes == (0..MaxCoord) \X (0..MaxCoord) \X (0..MaxSize) \X (0..MaxSize)

CollisionInit ==
    /\ pc = "checkBoxes"
    /\ boxA \in Boxes
    /\ boxB \in Boxes
    /\ isColliding = FALSE
    /\ direction = 0
    /\ exitStatus = NotReturned
    /\ loopEntered = FALSE
    /\ errLog = {}
    /\ windowShouldClose = FALSE
    /\ keyEscape = FALSE /\ keyLeft = FALSE /\ keyRight = FALSE /\ keySpace = FALSE
    /\ translationX = StartX
    /\ translationY = StartY
    /\ squareTranslationX = SquareX
    /\ squareTranslationY = SquareY
    /\ isJumping = FALSE
    /\ isFalling = FALSE
    /\ jumpHeight = 0
    /\ jumpStartTime = 0
    /\ deltaTime = 0
    /\ lastFrame = 0
    /\ currentFrame = 0
    /\ triangleColor = NoColor
    /\ transform = identityMatrix

CheckBoxes ==
    /\ pc = "checkBoxes"
    /\ isColliding' = checkCollision(boxA[1], boxA[2], boxA[3], boxA[4],
                                     boxB[1], boxB[2], boxB[3], boxB[4])
    /\ direction' = checkCollisionDirection(boxA[1], boxA[2], boxA[3], boxA[4],
                                            boxB[1], boxB[2], boxB[3], boxB[4])
    /\ pc' = "checked"
    /\ UNCHANGED << startup, windowShouldClose, keys, position, jumpState, clock,
                    triangleColor, transform, boxA, boxB >>

CollisionNext == CheckBoxes

CollisionSpec == CollisionInit /\ [][CollisionNext]_vars

(***************************************************************************)
(* The fall step on its own: one application per frame, no Space press,    *)
(* starting while falling from any offset in 1..MaxOffset.                 *)
(***************************************************************************)
FallInit ==
    /\ pc = "fallSequence"
    /\ isFalling = TRUE
    /\ jumpHeight \in 1..MaxOffset
    /\ isJumping = FALSE
    /\ jumpStartTime = 0
    /\ exitStatus = NotReturned
    /\ loopEntered = TRUE
    /\ errLog = {}
    /\ windowShouldClose = FALSE
    /\ keyEscape = FALSE /\ keyLeft = FALSE /\ keyRight = FALSE /\ keySpace = FALSE
    /\ translationX = StartX
    /\ translationY = StartY
    /\ squareTranslationX = SquareX
    /\ squareTranslationY = SquareY
    /\ deltaTime = 0
    /\ lastFrame = 0
    /\ currentFrame = 0
    /\ isColliding = FALSE
    /\ triangleColor = NoColor
    /\ transform = identityMatrix
    /\ boxA = << 0, 0, 0, 0 >>
    /\ boxB = << 0, 0, 0, 0 >>
    /\ direction = 0

FallSequence ==
    /\ pc = "fallSequence"
    /\ FallBody
    /\ UNCHANGED << pc, startup, windowShouldClose, keys, position, isJumping,
                    jumpStartTime, clock, output, direction >>

FallNext == FallSequence

\* The loop runs a frame after every frame, so the fall step keeps being applied.
FallSpec == FallInit /\ [][FallNext]_vars /\ WF_vars(FallSequence)

(***************************************************************************)
(* Properties.                                                             *)
(***************************************************************************)

\* C1: in every reachable state of the frame loop, at every point inside a
\* frame, at most one of isJumping and isFalling is true.
C1_AtMostOneFlag == ~ (isJumping /\ isFalling)

\* C1 witness: the jump step has just ended a jump and set isFalling.
C1_Witness == pc = "fall" /\ isFalling /\ ~isJumping /\ loopEntered

\* C2: the jump offset is never negative, after the space-press step, the
\* jump step and the fall step alike, and neither is the offset handed to the
\* collision test and to the triangle's transform.
C2_OffsetNonNegative ==
    /\ jumpHeight >= 0
    /\ (loopEntered /\ pc \in {"loop", "done"} /\ triangleColor # NoColor)
          => (boxA[2] >= translationY /\ transform[8] >= translationY)

\* C2 witness: a frame was rendered at the peak of a jump.
C2_Witness ==
    pc = "loop" /\ isJumping /\ jumpHeight = Amplitude /\ boxA[2] = translationY + Amplitude

\* The closed intervals [a, a+la] and [b, b+lb] have a common point.
IntervalsMeet(a, la, b, lb) == \E p \in a..(a + la) : p \in b..(b + lb)

\* C3: checkCollision is true exactly when the closed x-intervals intersect
\* and the closed y-intervals intersect (touching boxes collide, identical
\* boxes collide, boxes separated on an axis do not).
C3_ClosedIntervals ==
    pc = "checked" =>
        (isColliding <=> ( /\ IntervalsMeet(boxA[1], boxA[3], boxB[1], boxB[3])
                           /\ IntervalsMeet(boxA[2], boxA[4], boxB[2], boxB[4]) ))

\* C3 witness: two boxes that only touch along one edge were found to collide.
C3_Witness ==
    /\ pc = "checked" /\ isColliding
    /\ boxA[1] + boxA[3] = boxB[1] /\ boxA[3] > 0 /\ boxB[3] > 0
    /\ boxA[2] = boxB[2] /\ boxA[4] = boxB[4] /\ boxA[4] > 0

\* C4: a running jump is not restarted by Space, isJumping stays true while
\* progress < 1, and the first jump step with progress >= 1 clears isJumping,
\* zeroes the offset and is the only step that clears isJumping.
C4_JumpRunsOnce ==
    [][ /\ (pc = "space" /\ isJumping)
            => (jumpStartTime' = jumpStartTime /\ isJumping')
        /\ (isJumping /\ jumpStartTime' # jumpStartTime) => FALSE
        /\ (pc = "jump" /\ isJumping /\ currentFrame - jumpStartTime < JumpDuration)
            => (isJumping' /\ ~isFalling')
        /\ (pc = "jump" /\ isJumping /\ currentFrame - jumpStartTime >= JumpDuration)
            => (~isJumping' /\ isFalling' /\ jumpHeight' = 0)
        /\ (isJumping /\ ~isJumping')
            => (pc = "jump" /\ currentFrame - jumpStartTime >= JumpDuration)
        /\ (~isFalling /\ isFalling') => (isJumping /\ ~isJumping')
      ]_vars

\* C4 witness: a jump has just ended in a frame in which Space was held.
C4_Witness ==
    /\ pc = "fall" /\ isFalling /\ ~isJumping /\ keySpace
    /\ currentFrame - jumpStartTime >= JumpDuration /\ jumpStartTime > 0

C6_ExitStatus ==
    /\ [] ( /\ exitStatus \in { NotReturned, Returned(0), Returned(-1) }
            /\ (errLog \cap InitFailures # {})
                  <=> (exitStatus = Returned(-1))
            /\ (exitStatus = Returned(-1)) => (pc = "done" /\ ~loopEntered)
            /\ (exitStatus = Returned(0)) => (loopEntered /\ windowShouldClose)
            /\ (pc = "done") <=> (exitStatus # NotReturned) )
    /\ [][ /\ (errLog \cap InitFailures = {} /\ errLog' \cap InitFailures = {}
                /\ pc' = "done")
               => (exitStatus' = Returned(0) /\ pc = "loop" /\ windowShouldClose)
           /\ (pc = "createShaderProgram")
               => (pc' = "loop" /\ exitStatus' = NotReturned)
         ]_vars

\* C6 witness: the frame loop is running although the shader program failed.
C6_Witness ==
    /\ loopEntered /\ errLog \cap ShaderFailures # {} /\ pc = "render"
    /\ exitStatus = NotReturned

StrictOverlap(a, b) ==
    /\ a[1] + a[3] > b[1] /\ a[1] < b[1] + b[3]
    /\ a[2] + a[4] > b[2] /\ a[2] < b[2] + b[4]

\* C8: for boxes of positive size checkCollisionDirection returns 1..4 when
\* the interiors overlap and 0 exactly when they do not; a non-zero result
\* implies checkCollision.
C8_DirectionIffOverlap ==
    (pc = "checked" /\ boxA[3] > 0 /\ boxA[4] > 0 /\ boxB[3] > 0 /\ boxB[4] > 0) =>
        /\ direction \in 0..4
        /\ (direction # 0) <=> StrictOverlap(boxA, boxB)
        /\ (direction # 0) => isColliding

C10_FallWithinFrame ==
    /\ [] ( (pc \in {"render", "loop", "done"}) =>
                (~isFalling /\ (~isJumping => jumpHeight = 0)) )
    /\ [][ /\ (~isFalling /\ isFalling') => jumpHeight' = 0
           /\ (pc = "fall" /\ isFalling) => (~isFalling' /\ jumpHeight' = 0) ]_vars

\* C10 witness: the frame in which a jump ended is about to be rendered.
C10_Witness ==
    /\ pc = "render" /\ ~isJumping /\ ~isFalling /\ jumpHeight = 0
    /\ jumpStartTime > 0 /\ currentFrame - jumpStartTime >= JumpDuration

====
